---- MODULE Spec2Model ----
(***************************************************************************)
(* Tunnel lifecycle of the portmap client: the connect command (parse the  *)
(* peer configuration, fetch the mapping rules, Manager.Setup, steady      *)
(* state with signal and ticker) and the wireguard Manager it drives.      *)
(*                                                                         *)
(* Strings that the code splits are sequences of atoms (an atom is a       *)
(* comma-free, non-empty piece of text or the separator ","); every other  *)
(* string is a TLA+ string, "" being Go's empty string.                    *)
(***************************************************************************)
EXTENDS Integers, Sequences, FiniteSets, TLC

\* ------------------------------------------------------------------ bounds
\* ticks the background task handles in one run
MaxTicks == 2
\* largest value of a device byte counter
MaxBytes == 2
\* Manager method calls a direct caller makes after Setup returned
MaxCalls == 3
MaxRetries == 2

\* ------------------------------------------------------- input vocabulary
Platforms == {"darwin", "linux", "windows"}

CidrA == "10.0.0.0/24"
CidrB == "10.0.1.0/24"
BareIP == "10.0.0.5"
BadRange == "10.0.0.0/99"
Comma == ","

\* what net.ParseCIDR accepts among the atoms used here
ValidCIDRs == {CidrA, CidrB, "10.8.0.2/24"}
\* what net.ParseIP accepts among the atoms used here
ValidIPs == {BareIP}
\* what base64.StdEncoding.DecodeString accepts among the key texts used here
ValidBase64 == {"a2V5MQ=="}

NoValue == [set |-> FALSE]

\* the text the code sees when exactly one atom makes up the string
IsAtom(s, set) == Len(s) = 1 /\ s[1] \in set

\* ---------------------------------------------------------- strings.Split
RECURSIVE SplitFrom(_, _, _)
\* strings.Split(s, ","): cur is the piece being collected, acc the pieces so far
SplitFrom(s, cur, acc) ==
    IF s = <<>> THEN Append(acc, cur)
    ELSE IF Head(s) = Comma THEN SplitFrom(Tail(s), <<>>, Append(acc, cur))
    ELSE SplitFrom(Tail(s), Append(cur, Head(s)), acc)

Split(s) == SplitFrom(s, <<>>, <<>>)

\* ------------------------------------------------------- validation helpers
\* isValidIP: a CIDR, else a bare IP
isValidIP(ipStr) == IsAtom(ipStr, ValidCIDRs) \/ IsAtom(ipStr, ValidIPs)

\* isValidInterfaceName: ^(utun|wg|tun)[0-9]+$ over the names a TUN device reports
ValidInterfaceNames == {"utun3", "wg0", "tun0"}
isValidInterfaceName(name) == name \in ValidInterfaceNames

\* getTunnelName
getTunnelName(os) == IF os = "darwin" THEN "utun" ELSE "wg0"

\* convertKey: [ok, hex]; the hex text is named after the key it encodes
convertKey(b64Key) ==
    IF b64Key \in ValidBase64 THEN [ok |-> TRUE, hex |-> <<"hex", b64Key>>]
    ELSE [ok |-> FALSE, hex |-> <<>>]

\* ------------------------------------------------------------- ParseConfig
\* Key.MustInt(25) over the keepalive texts used here
KeepaliveInts == [x \in {"30"} |-> 30]
MustInt(raw, def) == IF raw \in DOMAIN KeepaliveInts THEN KeepaliveInts[raw] ELSE def

NoConfig == [present |-> FALSE]

ParseResult(cfg, id, err) == [config |-> cfg, configID |-> id, err |-> err]

\* ParseConfig with the interface address checked before the private key
ParseConfigAddressFirst(file) ==
    LET allowed == Split(file.AllowedIPs)
        cfg == [present |-> TRUE,
                PrivateKey |-> file.PrivateKey,
                Address |-> file.Address,
                DNS |-> file.DNS,
                PublicKey |-> file.PublicKey,
                AllowedIPs |-> allowed,
                Endpoint |-> file.Endpoint,
                PersistentKeepalive |-> MustInt(file.PersistentKeepalive, 25)]
    IN  IF ~file.loadable THEN ParseResult(NoConfig, "", "failed to load config")
        ELSE IF file.config_id = "" THEN ParseResult(NoConfig, "", "config_id not found")
        ELSE IF cfg.Address = "" THEN ParseResult(NoConfig, "", "missing interface address")
        ELSE IF cfg.PrivateKey = "" THEN ParseResult(NoConfig, "", "missing private key")
        ELSE IF cfg.PublicKey = "" THEN ParseResult(NoConfig, "", "missing peer public key")
        ELSE IF cfg.Endpoint = "" THEN ParseResult(NoConfig, "", "missing peer endpoint")
        ELSE IF Len(cfg.AllowedIPs) = 0 THEN ParseResult(NoConfig, "", "missing allowed IPs")
        ELSE ParseResult(cfg, file.config_id, "")

\* ParseConfig(path) over the content of the file at path
ParseConfig(file) ==
    LET allowed == Split(file.AllowedIPs)
        cfg == [present |-> TRUE,
                PrivateKey |-> file.PrivateKey,
                Address |-> file.Address,
                DNS |-> file.DNS,
                PublicKey |-> file.PublicKey,
                AllowedIPs |-> allowed,
                Endpoint |-> file.Endpoint,
                PersistentKeepalive |-> MustInt(file.PersistentKeepalive, 25)]
    IN  IF ~file.loadable THEN ParseResult(NoConfig, "", "failed to load config")
        ELSE IF file.config_id = "" THEN ParseResult(NoConfig, "", "config_id not found")
        ELSE IF cfg.PrivateKey = "" THEN ParseResult(NoConfig, "", "missing private key")
        ELSE IF cfg.Address = "" THEN ParseResult(NoConfig, "", "missing interface address")
        ELSE IF cfg.PublicKey = "" THEN ParseResult(NoConfig, "", "missing peer public key")
        ELSE IF cfg.Endpoint = "" THEN ParseResult(NoConfig, "", "missing peer endpoint")
        ELSE IF Len(cfg.AllowedIPs) = 0 THEN ParseResult(NoConfig, "", "missing allowed IPs")
        ELSE ParseResult(cfg, file.config_id, "")

\* configuration files: the well-formed one and its one-field variations
GoodFile ==
    [loadable |-> TRUE, config_id |-> "cfg1", PrivateKey |-> "a2V5MQ==",
     Address |-> "10.8.0.2/24", DNS |-> "", PublicKey |-> "a2V5MQ==",
     AllowedIPs |-> <<CidrA, Comma, CidrB>>, Endpoint |-> "gw:51820",
     PersistentKeepalive |-> ""]

AllowedFields ==
    {<<>>, <<CidrA>>, <<BareIP>>, <<CidrA, Comma, CidrB>>,
     <<CidrA, Comma, BadRange>>, <<BadRange, Comma, CidrA>>}

ConfigFiles ==
    {GoodFile}
    \cup {[GoodFile EXCEPT !.loadable = FALSE]}
    \cup {[GoodFile EXCEPT !.config_id = ""]}
    \cup {[GoodFile EXCEPT !.PrivateKey = k] : k \in {"", "not base64!"}}
    \cup {[GoodFile EXCEPT !.PublicKey = k] : k \in {"", "not base64!"}}
    \cup {[GoodFile EXCEPT !.Address = a] : a \in {"", "10.8.0.2"}}
    \cup {[GoodFile EXCEPT !.Endpoint = ""]}
    \cup {[GoodFile EXCEPT !.AllowedIPs = a] : a \in AllowedFields}
    \cup {[GoodFile EXCEPT !.PersistentKeepalive = k] : k \in {"30", "abc"}}

\* configuration files with every combination of present, absent and
\* ill-formed fields
AllFiles ==
    [loadable : BOOLEAN, config_id : {"", "cfg1"}, PrivateKey : {"", "a2V5MQ==", "not base64!"},
     Address : {"", "10.8.0.2/24", "10.8.0.2"}, DNS : {""},
     PublicKey : {"", "a2V5MQ==", "not base64!"}, AllowedIPs : AllowedFields,
     Endpoint : {"", "gw:51820"}, PersistentKeepalive : {"", "30", "abc"}]

\* the answers of the mapping API: an error, or the rule list; a rule is the
\* region of its config object ("absent": the rule carries no config object)
Regions == {"absent", "", "default", "eu"}
ApiError == <<"error">>
Responses == {ApiError, <<>>} \cup {<<r>> : r \in Regions} \cup {<<"eu", "default">>}

\* ------------------------------------------------------------------- state
VARIABLES
    goos,           \* runtime.GOOS
    serviceMode,    \* the --service flag
    file,           \* content of the configuration file given to connect
    fgpc,           \* position of the foreground (RunE / the caller of Setup)
    bgpc,           \* position of the background goroutine
    exitCode,       \* "running", "0", "1", or "killed" (default signal disposition)
    config,         \* the parsed WireguardConfig
    configID,
    parseErr,       \* the error ParseConfig returned, "" if none
    mappings,       \* the rule list client.ListMappings returned
    mappingRules,   \* len(mappingRules)
    listErr,        \* client.ListMappings returned an error
    serverHostname, \* the gateway label, as the pieces it is put together from
    devState,       \* "none", "tun" (TUN created), "down", "up", "closed"
    uapi,           \* configuration block the device accepted, or NoValue
    actualName,     \* name the TUN device reports
    m_device,       \* m.device != nil
    m_interfaceName,
    linkUp,         \* host: link brought up
    addrAssigned,   \* host: address attached to the interface
    routes,         \* host: ranges routed through the interface, in order
    cmds,           \* external commands issued so far, in order
    routeIdx,       \* position of addRoutes in AllowedIPs
    setupErr,       \* step whose failure Setup returned, "" if none
    closeCalls,     \* calls of device.Close
    cleanupCalls,   \* calls of Manager.Cleanup
    notifyOn,       \* signal.Notify registered
    sigChan,        \* signals buffered in sigChan (capacity 1)
    tickerOn,
    tickC,          \* a tick is buffered in ticker.C
    rxc, txc,       \* the device's byte counters
    lastRx, lastTx, \* the goroutine's last observed sample
    shown,          \* counters on the traffic display, <<>> when none is printed
    renders,        \* re-renders of the traffic display, counted up to MaxTicks
    ticks,          \* ticks handled, counted up to MaxTicks
    tick,           \* what the last handled tick did
    sample,         \* what the last GetTrafficStats call returned
    peak,           \* componentwise maximum of all earlier returns
    calls,          \* method calls made by a direct caller of the Manager
    port, protocol, configType, \* IsValidPort: the arguments
    portRet,        \* IsValidPort: what it returned, or NoValue
    retries, delay, \* fetchConfigWithRetry: the arguments
    fetchpc,        \* fetchConfigWithRetry: position, "idle" when it is not running
    loopI,          \* fetchConfigWithRetry: the loop counter i
    attempts,       \* fetchConfigWithRetry: answers of GetConfig so far, in order
    sleeps,         \* fetchConfigWithRetry: durations slept so far, in order
    lastErr,        \* fetchConfigWithRetry: lastErr, "" for nil
    fetchRet        \* fetchConfigWithRetry: what it returned, or NoValue

vars == <<goos, serviceMode, file, fgpc, bgpc, exitCode, config, configID,
          parseErr, listErr,
          mappings, mappingRules, serverHostname, devState, uapi, actualName, m_device,
          m_interfaceName, linkUp, addrAssigned, routes, cmds, routeIdx,
          setupErr, closeCalls, cleanupCalls, notifyOn, sigChan,
          tickerOn, tickC, rxc, txc, lastRx, lastTx, shown, renders, ticks,
          tick, sample, peak, calls, port, protocol, configType, portRet,
          retries, delay, fetchpc, loopI, attempts, sleeps, lastErr, fetchRet>>

\* state of the validation and config commands, which connect never touches
portVars == <<port, protocol, configType, portRet>>
fetchVars == <<retries, delay, fetchpc, loopI, attempts, sleeps, lastErr, fetchRet>>

\* what no step of the connect command or of the Manager changes
inputVars == <<goos, serviceMode, file, portVars, fetchVars>>
parseVars == <<config, configID, parseErr>>
listVars == <<mappings, mappingRules, serverHostname, listErr>>
deviceVars == <<devState, uapi, actualName, closeCalls>>
mgrVars == <<m_device, m_interfaceName>>
hostVars == <<linkUp, addrAssigned, routes>>
signalVars == <<notifyOn, sigChan>>
tickerVars == <<tickerOn, tickC>>
counterVars == <<rxc, txc>>
displayVars == <<lastRx, lastTx, shown, renders, ticks, tick>>
sampleVars == <<sample, peak>>

NoTick == [handled |-> FALSE]
NoSample == [taken |-> FALSE]

Max(a, b) == IF a >= b THEN a ELSE b

Cmd(name, ifname, arg) == [cmd |-> name, ifname |-> ifname, arg |-> arg]

\* the state every run starts from, whoever drives the Manager
Fresh ==
    /\ goos \in Platforms
    /\ serviceMode \in BOOLEAN
    /\ bgpc = "none"
    /\ exitCode = "running"
    /\ mappings = <<>>
    /\ mappingRules = 0
    /\ listErr = FALSE
    /\ serverHostname = <<>>
    /\ devState = "none"
    /\ uapi = NoValue
    /\ actualName = ""
    /\ m_device = FALSE
    /\ m_interfaceName = ""
    /\ linkUp = FALSE
    /\ addrAssigned = FALSE
    /\ routes = <<>>
    /\ cmds = <<>>
    /\ routeIdx = 1
    /\ setupErr = ""
    /\ closeCalls = 0
    /\ cleanupCalls = 0
    /\ notifyOn = FALSE
    /\ sigChan = 0
    /\ tickerOn = FALSE
    /\ tickC = FALSE
    /\ rxc = 0
    /\ txc = 0
    /\ lastRx = 0
    /\ lastTx = 0
    /\ shown = <<>>
    /\ renders = 0
    /\ ticks = 0
    /\ tick = NoTick
    /\ sample = NoSample
    /\ peak = <<0, 0>>
    /\ calls = 0

\* the validation and config commands are not running
OthersIdle ==
    /\ port = <<>>
    /\ protocol = ""
    /\ configType = ""
    /\ portRet = NoValue
    /\ retries = 0
    /\ delay = 0
    /\ fetchpc = "idle"
    /\ loopI = 0
    /\ attempts = <<>>
    /\ sleeps = <<>>
    /\ lastErr = ""
    /\ fetchRet = NoValue

\* the connect command is started on a configuration file
Init ==
    /\ Fresh
    /\ OthersIdle
    /\ file \in ConfigFiles
    /\ fgpc = "parse"
    /\ config = NoConfig
    /\ configID = ""
    /\ parseErr = ""

Running == exitCode = "running"

\* what the steps of Manager.Setup leave alone
setupFrame == <<inputVars, bgpc, exitCode, parseVars, listVars, cleanupCalls,
                signalVars, tickerVars, counterVars, displayVars, sampleVars,
                calls>>

\* ------------------------------------------------------------ Manager.Setup
\* Setup after setupWireguardDevice returned: an error is returned at once,
\* otherwise the address is configured next
SetupOnDeviceResultIgnoreErr(err) == "configure_ip"
SetupOnDeviceResult(err) == IF err # "" THEN "setup_err" ELSE "configure_ip"

\* setupWireguardDevice returns (nil, "", err)
DeviceStepFails(step) ==
    /\ setupErr' = step
    /\ fgpc' = SetupOnDeviceResult(step)
    /\ UNCHANGED mgrVars

\* names tunDevice.Name() reports on a platform: the requested name as it is,
\* or a name of the same prefix
DeviceNames(os) == {getTunnelName(os)} \cup (IF os = "darwin" THEN {"utun3"} ELSE {"wg"})

\* tun.CreateTUN(getTunnelName(), DefaultMTU)
CreateTUN ==
    /\ Running
    /\ fgpc = "create_tun"
    /\ \E ok \in BOOLEAN :
        IF ok
        THEN /\ devState' = "tun"
             /\ fgpc' = "tun_name"
             /\ UNCHANGED <<setupErr, mgrVars>>
        ELSE /\ DeviceStepFails("create_tun")
             /\ UNCHANGED devState
    /\ UNCHANGED <<uapi, actualName, closeCalls, hostVars, cmds, routeIdx, setupFrame>>

\* tunDevice.Name(), then device.NewDevice
TunName ==
    /\ Running
    /\ fgpc = "tun_name"
    /\ \E ok \in BOOLEAN :
        IF ok
        THEN /\ actualName' \in DeviceNames(goos)
             /\ devState' = "down"
             /\ fgpc' = "convert_keys"
             /\ UNCHANGED <<setupErr, mgrVars>>
        ELSE /\ DeviceStepFails("tun_name")
             /\ UNCHANGED <<actualName, devState>>
    /\ UNCHANGED <<uapi, closeCalls, hostVars, cmds, routeIdx, setupFrame>>

\* convertKey of the private key, then of the peer's public key
ConvertKeys ==
    /\ Running
    /\ fgpc = "convert_keys"
    /\ IF ~convertKey(config.PrivateKey).ok THEN DeviceStepFails("private_key")
       ELSE IF ~convertKey(config.PublicKey).ok THEN DeviceStepFails("public_key")
       ELSE /\ fgpc' = "ipc_set"
            /\ UNCHANGED <<setupErr, mgrVars>>
    /\ UNCHANGED <<deviceVars, hostVars, cmds, routeIdx, setupFrame>>

\* the configuration block with every allowed range as an allowed_ip entry
UapiConfigAllRanges(cfg) ==
    [set |-> TRUE,
     private_key |-> convertKey(cfg.PrivateKey).hex,
     public_key |-> convertKey(cfg.PublicKey).hex,
     endpoint |-> cfg.Endpoint,
     allowed_ip |-> cfg.AllowedIPs,
     persistent_keepalive_interval |-> cfg.PersistentKeepalive]

\* the configuration block of setupWireguardDevice (the texts used here carry
\* no surrounding white space, so strings.TrimSpace leaves them as they are)
UapiConfig(cfg) ==
    [set |-> TRUE,
     private_key |-> convertKey(cfg.PrivateKey).hex,
     public_key |-> convertKey(cfg.PublicKey).hex,
     endpoint |-> cfg.Endpoint,
     allowed_ip |-> <<cfg.AllowedIPs[1]>>,
     persistent_keepalive_interval |-> cfg.PersistentKeepalive]

\* dev.IpcSet(uapiConfig)
IpcSet ==
    /\ Running
    /\ fgpc = "ipc_set"
    /\ \E ok \in BOOLEAN :
        IF ok
        THEN /\ uapi' = UapiConfig(config)
             /\ fgpc' = "dev_up"
             /\ UNCHANGED <<setupErr, mgrVars>>
        ELSE /\ DeviceStepFails("ipc_set")
             /\ UNCHANGED uapi
    /\ UNCHANGED <<devState, actualName, closeCalls, hostVars, cmds, routeIdx, setupFrame>>

\* dev.Up(), whose error is dropped, then Setup stores the device and its name
DeviceUp ==
    /\ Running
    /\ fgpc = "dev_up"
    /\ \E ok \in BOOLEAN : devState' = IF ok THEN "up" ELSE "down"
    /\ m_device' = TRUE
    /\ m_interfaceName' = actualName
    /\ fgpc' = SetupOnDeviceResult("")
    /\ UNCHANGED <<uapi, actualName, closeCalls, setupErr, hostVars, cmds, routeIdx,
                   setupFrame>>

\* the failed step is recorded and attempted again
HostStepFailsTriesAgain(step) ==
    /\ setupErr' = step
    /\ fgpc' = fgpc

\* configureIPAddress or addRoutes returns an error, and Setup returns it
HostStepFails(step) ==
    /\ setupErr' = step
    /\ fgpc' = "setup_err"

\* the first command of configureIPAddress on a platform
AddressCmd(os) ==
    CASE os = "darwin" -> "ifconfig inet"
      [] os = "linux" -> "ip link set up"
      [] os = "windows" -> "netsh set address"

\* configureIPAddress: net.ParseCIDR of the address, then the platform's
\* (first) command
ConfigureIPAddress ==
    /\ Running
    /\ fgpc = "configure_ip"
    /\ IF config.Address \notin ValidCIDRs
       THEN /\ HostStepFails("address_format")
            /\ UNCHANGED <<hostVars, cmds>>
       ELSE /\ cmds' = Append(cmds, Cmd(AddressCmd(goos), m_interfaceName, <<config.Address>>))
            /\ \E ok \in BOOLEAN :
                IF ~ok
                THEN /\ HostStepFails("address")
                     /\ UNCHANGED hostVars
                ELSE /\ linkUp' = TRUE
                     /\ addrAssigned' = (goos # "linux")
                     /\ fgpc' = IF goos = "linux" THEN "ip_addr" ELSE "add_routes"
                     /\ UNCHANGED <<routes, setupErr>>
    /\ UNCHANGED <<deviceVars, mgrVars, routeIdx, setupFrame>>

\* configureIPAddress on linux: ip addr add dev <name> <address>
AddAddressLinux ==
    /\ Running
    /\ fgpc = "ip_addr"
    /\ cmds' = Append(cmds, Cmd("ip addr add", m_interfaceName, <<config.Address>>))
    /\ \E ok \in BOOLEAN :
        IF ~ok
        THEN /\ HostStepFails("address")
             /\ UNCHANGED hostVars
        ELSE /\ addrAssigned' = TRUE
             /\ fgpc' = "add_routes"
             /\ UNCHANGED <<linkUp, routes, setupErr>>
    /\ UNCHANGED <<deviceVars, mgrVars, routeIdx, setupFrame>>

\* the route command of addRoutes on darwin and linux
RouteCmd(os) == IF os = "darwin" THEN "route add -net" ELSE "ip route add"

\* addRoutes, one pass of the loop over AllowedIPs: both checks, then the
\* platform's command (on windows the interface index lookup)
AddRoute ==
    /\ Running
    /\ fgpc = "add_routes"
    /\ routeIdx <= Len(config.AllowedIPs)
    /\ LET allowedIP == config.AllowedIPs[routeIdx] IN
        IF ~isValidIP(allowedIP)
        THEN /\ HostStepFails("route_invalid_ip")
             /\ UNCHANGED <<hostVars, cmds, routeIdx>>
        ELSE IF ~isValidInterfaceName(m_interfaceName)
        THEN /\ HostStepFails("route_invalid_name")
             /\ UNCHANGED <<hostVars, cmds, routeIdx>>
        ELSE IF goos = "windows"
        THEN /\ cmds' = Append(cmds, Cmd("netsh show interfaces", "", <<>>))
             /\ \E ok \in BOOLEAN, found \in BOOLEAN :
                 IF ~ok THEN HostStepFails("route_index_cmd")
                 ELSE IF ~found THEN HostStepFails("route_index_missing")
                 ELSE IF ~IsAtom(allowedIP, ValidCIDRs) THEN HostStepFails("route_cidr_format")
                 ELSE fgpc' = "route_win" /\ UNCHANGED setupErr
             /\ UNCHANGED <<hostVars, routeIdx>>
        ELSE /\ cmds' = Append(cmds, Cmd(RouteCmd(goos), m_interfaceName, allowedIP))
             /\ \E ok \in BOOLEAN :
                 IF ~ok
                 THEN /\ HostStepFails("route")
                      /\ UNCHANGED <<hostVars, routeIdx>>
                 ELSE /\ routes' = Append(routes, allowedIP)
                      /\ routeIdx' = routeIdx + 1
                      /\ UNCHANGED <<linkUp, addrAssigned, fgpc, setupErr>>
    /\ UNCHANGED <<deviceVars, mgrVars, setupFrame>>

\* addRoutes on windows: route add <network> mask <mask> <gateway> metric 1 IF <idx>
AddRouteWindows ==
    /\ Running
    /\ fgpc = "route_win"
    /\ LET allowedIP == config.AllowedIPs[routeIdx] IN
        /\ cmds' = Append(cmds, Cmd("route add mask", "", allowedIP))
        /\ \E ok \in BOOLEAN :
            IF ~ok
            THEN /\ HostStepFails("route")
                 /\ UNCHANGED <<hostVars, routeIdx>>
            ELSE /\ routes' = Append(routes, allowedIP)
                 /\ routeIdx' = routeIdx + 1
                 /\ fgpc' = "add_routes"
                 /\ UNCHANGED <<linkUp, addrAssigned, setupErr>>
    /\ UNCHANGED <<deviceVars, mgrVars, setupFrame>>

\* addRoutes is through the list and Setup returns nil
SetupReturnsNil ==
    /\ Running
    /\ fgpc = "add_routes"
    /\ routeIdx > Len(config.AllowedIPs)
    /\ fgpc' = "setup_ok"
    /\ UNCHANGED <<deviceVars, mgrVars, hostVars, cmds, routeIdx, setupErr, setupFrame>>

SetupStep ==
    \/ CreateTUN
    \/ TunName
    \/ ConvertKeys
    \/ IpcSet
    \/ DeviceUp
    \/ ConfigureIPAddress
    \/ AddAddressLinux
    \/ AddRoute
    \/ AddRouteWindows
    \/ SetupReturnsNil

\* ---------------------------------------------------------- Manager.Cleanup
\* the command Cleanup runs on a platform
TeardownCmd(os) ==
    CASE os = "darwin" -> "ifconfig down"
      [] os = "linux" -> "ip link del"
      [] os = "windows" -> "netsh interface delete"

TeardownCmds == {TeardownCmd(os) : os \in Platforms}

\* Cleanup: device.Close() when a device is stored (the interface, its address
\* and its routes go with the device), then the platform's command, whose
\* result is dropped; m.device and m.interfaceName stay as they are
Cleanup ==
    /\ cleanupCalls' = cleanupCalls + 1
    /\ IF m_device
       THEN /\ closeCalls' = closeCalls + 1
            /\ devState' = "closed"
            /\ linkUp' = FALSE
            /\ addrAssigned' = FALSE
            /\ routes' = <<>>
       ELSE UNCHANGED <<closeCalls, devState, hostVars>>
    /\ cmds' = Append(cmds, Cmd(TeardownCmd(goos), m_interfaceName, <<>>))
    /\ UNCHANGED <<mgrVars, uapi, actualName>>

\* --------------------------------------------------- Manager.GetTrafficStats
\* device.IpcGet(): the status text as (key, value) lines; a closed device has
\* no peer left to report
IpcGet(ok, state, rx, tx) ==
    IF ~ok THEN [err |-> TRUE, lines |-> <<>>]
    ELSE IF state = "closed" THEN [err |-> FALSE, lines |-> <<<<"listen_port", 0>>>>]
    ELSE [err |-> FALSE,
          lines |-> <<<<"listen_port", 0>>, <<"public_key", 0>>, <<"tx_bytes", tx>>,
                      <<"rx_bytes", rx>>, <<"persistent_keepalive_interval", 25>>>>]

RECURSIVE ParseStats(_, _, _)
\* the loop of GetTrafficStats over the lines of the status text
ParseStats(lines, rx, tx) ==
    IF lines = <<>> THEN <<rx, tx>>
    ELSE IF Head(lines)[1] = "rx_bytes" THEN ParseStats(Tail(lines), Head(lines)[2], tx)
    ELSE IF Head(lines)[1] = "tx_bytes" THEN ParseStats(Tail(lines), rx, Head(lines)[2])
    ELSE ParseStats(Tail(lines), rx, tx)

\* GetTrafficStats with the error path returning what is left in the counters
GetTrafficStatsErrMax(hasDevice, reply) ==
    IF ~hasDevice THEN <<0, 0>>
    ELSE IF reply.err THEN <<MaxBytes, MaxBytes>>
    ELSE ParseStats(reply.lines, 0, 0)

\* GetTrafficStats: (0, 0) without a device or when the query fails
GetTrafficStats(hasDevice, reply) ==
    IF ~hasDevice THEN <<0, 0>>
    ELSE IF reply.err THEN <<0, 0>>
    ELSE ParseStats(reply.lines, 0, 0)

\* bookkeeping of the values GetTrafficStats returned
Sampled(s, failed) ==
    /\ sample' = [taken |-> TRUE, rx |-> s[1], tx |-> s[2], failed |-> failed]
    /\ peak' = IF sample.taken
               THEN <<Max(peak[1], sample.rx), Max(peak[2], sample.tx)>>
               ELSE peak

\* ------------------------------------------------------- the connect command
\* the gateway label RunE derives from the first rule
ServerHostname(data) ==
    IF Len(data) = 0 \/ data[1] = "absent" THEN <<>>
    ELSE IF data[1] # "" /\ data[1] # "default" THEN <<data[1], ".portmap.io">>
    ELSE <<"portmap.io">>

runFrame == <<inputVars, bgpc, deviceVars, mgrVars, hostVars, cmds, routeIdx,
              setupErr, cleanupCalls, signalVars, tickerVars, counterVars,
              displayVars, sampleVars, calls>>

\* RunE: wireguard.ParseConfig(args[0])
RunEParse ==
    /\ Running
    /\ fgpc = "parse"
    /\ LET r == ParseConfig(file) IN
        IF r.err # ""
        THEN /\ fgpc' = "ret_err"
             /\ parseErr' = r.err
             /\ UNCHANGED <<config, configID>>
        ELSE /\ config' = r.config
             /\ configID' = r.configID
             /\ parseErr' = ""
             /\ fgpc' = "list"
    /\ UNCHANGED <<exitCode, listVars, runFrame>>

\* RunE: client.ListMappings, the gateway label and the rule lines, then
\* wireguard.NewManager(config)
RunEListMappings ==
    /\ Running
    /\ fgpc = "list"
    /\ \E resp \in Responses :
        IF resp = ApiError
        THEN /\ fgpc' = "ret_err"
             /\ listErr' = TRUE
             /\ UNCHANGED <<mappings, mappingRules, serverHostname>>
        ELSE /\ mappings' = resp
             /\ serverHostname' = ServerHostname(resp)
             /\ mappingRules' = Len(resp)
             /\ listErr' = FALSE
             /\ fgpc' = "create_tun"
    /\ UNCHANGED <<exitCode, parseVars, runFrame>>

\* RunE: mgr.Setup() returned an error, RunE returns it
RunESetupFailed ==
    /\ Running
    /\ fgpc = "setup_err"
    /\ fgpc' = "ret_err"
    /\ UNCHANGED <<exitCode, parseVars, listVars, runFrame>>

\* main: rootCmd.Execute() returned an error, os.Exit(1)
MainExitError ==
    /\ Running
    /\ fgpc = "ret_err"
    /\ exitCode' = "1"
    /\ fgpc' = "exited"
    /\ UNCHANGED <<parseVars, listVars, runFrame>>

\* whether the two traffic lines are on the screen
HasDisplay(service, nrules) == ~service /\ nrules > 0

\* the goroutine is started on any return of Setup
CanEnterSteadyAnyReturn(pc) == pc \in {"setup_ok", "setup_err"}

\* RunE goes on past wgManager.Setup() only when it returned nil
CanEnterSteady(pc) == pc = "setup_ok"

\* RunE after Setup returned nil: the connection lines, signal.Notify, the
\* ticker, the goroutine, and select {}
RunEEnterSteady ==
    /\ Running
    /\ CanEnterSteady(fgpc)
    /\ shown' = IF HasDisplay(serviceMode, mappingRules) THEN <<0, 0>> ELSE <<>>
    /\ notifyOn' = TRUE
    /\ tickerOn' = TRUE
    /\ bgpc' = "select"
    /\ fgpc' = "blocked"
    /\ UNCHANGED <<inputVars, exitCode, parseVars, listVars, deviceVars, mgrVars,
                   hostVars, cmds, routeIdx, setupErr, cleanupCalls, sigChan,
                   tickC, counterVars, lastRx, lastTx, renders, ticks,
                   tick, sampleVars, calls>>

\* ------------------------------------------------------ the goroutine of RunE
bgFrame == <<inputVars, fgpc, parseVars, listVars, routeIdx, setupErr, notifyOn,
             tickerOn, counterVars, calls>>

\* where the signal branch goes after taking the signal
AfterSignalSkipCleanup == "os_exit"
AfterSignal == "cleanup"

\* a select that takes the signal only when no tick is ready
SelectTickFirst(sig, tk) == IF tk THEN {"tick"} ELSE IF sig > 0 THEN {"signal"} ELSE {}

\* select over sigChan and ticker.C: the cases that can proceed, of which one
\* is chosen
SelectReady(sig, tk) ==
    (IF sig > 0 THEN {"signal"} ELSE {}) \cup (IF tk THEN {"tick"} ELSE {})

\* case <-sigChan: the signal is taken (and "Disconnecting" printed)
BgSignal ==
    /\ Running
    /\ bgpc = "select"
    /\ "signal" \in SelectReady(sigChan, tickC)
    /\ sigChan' = sigChan - 1
    /\ bgpc' = AfterSignal
    /\ UNCHANGED <<exitCode, deviceVars, mgrVars, hostVars, cmds, cleanupCalls, tickC,
                   displayVars, sampleVars, bgFrame>>

\* the signal branch: mgr.Cleanup()
BgCleanup ==
    /\ Running
    /\ bgpc = "cleanup"
    /\ Cleanup
    /\ bgpc' = "os_exit"
    /\ UNCHANGED <<exitCode, sigChan, tickC, displayVars, sampleVars, bgFrame>>

\* the signal branch: os.Exit(0)
BgExit ==
    /\ Running
    /\ bgpc = "os_exit"
    /\ exitCode' = "0"
    /\ bgpc' = "exited"
    /\ UNCHANGED <<deviceVars, mgrVars, hostVars, cmds, cleanupCalls, sigChan, tickC,
                   displayVars, sampleVars, bgFrame>>

\* the tick branch samples in every mode
TickSamplesAnyMode(service, nrules) == nrules > 0
\* the tick branch samples: !serviceMode && len(mappingRules) > 0
TickSamples(service, nrules) == ~service /\ nrules > 0

\* the display is redrawn only when both counters moved
ShouldRenderBoth(rx, tx, lRx, lTx) == rx # lRx /\ tx # lTx
\* the display is redrawn: rxBytes != lastRx || txBytes != lastTx
ShouldRender(rx, tx, lRx, lTx) == rx # lRx \/ tx # lTx

\* the tick branch ends the process when the query failed
TickExitOnFailure(failed) == IF failed THEN "1" ELSE "running"
\* the process after the tick branch, whatever the query gave: still running
TickExit(failed) == "running"

\* the two lines are printed with the counters swapped
RenderedSwapped(s) == <<s[2], s[1]>>
\* the values the redraw prints: received, then sent
Rendered(s) == s

\* case <-ticker.C
BgTick ==
    /\ Running
    /\ bgpc = "select"
    /\ "tick" \in SelectReady(sigChan, tickC)
    /\ tickC' = FALSE
    /\ ticks' = IF ticks < MaxTicks THEN ticks + 1 ELSE ticks
    /\ IF TickSamples(serviceMode, mappingRules)
       THEN \E ok \in BOOLEAN :
            LET s == GetTrafficStats(m_device, IpcGet(ok, devState, rxc, txc))
                redraw == ShouldRender(s[1], s[2], lastRx, lastTx)
            IN  /\ Sampled(s, ~ok)
                /\ exitCode' = TickExit(~ok)
                /\ tick' = [handled |-> TRUE, sampled |-> TRUE, query |-> s,
                            failed |-> ~ok, prevLast |-> <<lastRx, lastTx>>,
                            rendered |-> redraw]
                /\ IF redraw
                   THEN /\ shown' = Rendered(s)
                        /\ renders' = IF renders < MaxTicks THEN renders + 1 ELSE renders
                        /\ lastRx' = s[1]
                        /\ lastTx' = s[2]
                   ELSE UNCHANGED <<shown, renders, lastRx, lastTx>>
       ELSE /\ tick' = [handled |-> TRUE, sampled |-> FALSE, query |-> <<rxc, txc>>,
                        failed |-> FALSE, prevLast |-> <<lastRx, lastTx>>,
                        rendered |-> FALSE]
            /\ UNCHANGED <<exitCode, shown, renders, lastRx, lastTx, sampleVars>>
    /\ UNCHANGED <<bgpc, deviceVars, mgrVars, hostVars, cmds, cleanupCalls, sigChan,
                   bgFrame>>

\* ------------------------------------------------------------ the environment
envFrame == <<inputVars, fgpc, bgpc, parseVars, listVars, deviceVars, mgrVars,
              hostVars, cmds, routeIdx, setupErr, cleanupCalls, displayVars,
              sampleVars, calls>>

\* SIGINT or SIGTERM is delivered: into sigChan once signal.Notify is registered
\* (dropped when the channel is full), else the process dies of it
Signal ==
    /\ Running
    /\ IF notifyOn
       THEN /\ sigChan' = 1
            /\ UNCHANGED exitCode
       ELSE /\ exitCode' = "killed"
            /\ UNCHANGED sigChan
    /\ UNCHANGED <<notifyOn, tickerVars, counterVars, envFrame>>

\* the ticker puts a tick into ticker.C (capacity 1)
TickerFires ==
    /\ Running
    /\ tickerOn
    /\ ~tickC
    /\ ticks < MaxTicks
    /\ tickC' = TRUE
    /\ UNCHANGED <<exitCode, tickerOn, signalVars, counterVars, envFrame>>

\* the peer sends or receives: a byte counter of the running device grows
\* (followed from the return of Setup on: nothing reads the counters earlier)
Traffic ==
    /\ Running
    /\ devState = "up"
    /\ fgpc \in {"setup_ok", "setup_err", "blocked"}
    /\ \/ rxc < MaxBytes /\ rxc' = rxc + 1 /\ UNCHANGED txc
       \/ txc < MaxBytes /\ txc' = txc + 1 /\ UNCHANGED rxc
    /\ UNCHANGED <<exitCode, signalVars, tickerVars, envFrame>>

Next ==
    \/ RunEParse
    \/ RunEListMappings
    \/ SetupStep
    \/ RunESetupFailed
    \/ MainExitError
    \/ RunEEnterSteady
    \/ BgSignal
    \/ BgCleanup
    \/ BgExit
    \/ BgTick
    \/ Signal
    \/ TickerFires
    \/ Traffic

Spec == Init /\ [][Next]_vars

\* ------------------------------------------- the Manager under a direct caller
\* NewManager(config) on a configuration ParseConfig produced
InitMgr ==
    /\ Fresh
    /\ OthersIdle
    /\ file \in {f \in ConfigFiles : ParseConfig(f).err = ""}
    /\ config = ParseConfig(file).config
    /\ configID = ParseConfig(file).configID
    /\ parseErr = ""
    /\ fgpc = "create_tun"

SetupReturned == fgpc \in {"setup_ok", "setup_err"}

callFrame == <<inputVars, fgpc, bgpc, exitCode, parseVars, listVars, routeIdx,
               setupErr, signalVars, tickerVars, counterVars, displayVars>>

\* the caller calls mgr.Cleanup()
CallCleanup ==
    /\ Running
    /\ SetupReturned
    /\ calls < MaxCalls
    /\ calls' = calls + 1
    /\ Cleanup
    /\ UNCHANGED <<sampleVars, callFrame>>

\* the caller calls mgr.GetTrafficStats()
CallGetTrafficStats ==
    /\ Running
    /\ SetupReturned
    /\ calls < MaxCalls
    /\ calls' = calls + 1
    /\ \E ok \in BOOLEAN :
        Sampled(GetTrafficStats(m_device, IpcGet(ok, devState, rxc, txc)), m_device /\ ~ok)
    /\ UNCHANGED <<deviceVars, mgrVars, hostVars, cmds, cleanupCalls, callFrame>>

NextMgr ==
    \/ SetupStep
    \/ CallCleanup
    \/ CallGetTrafficStats
    \/ Traffic

SpecMgr == InitMgr /\ [][NextMgr]_vars

\* ------------------------------------------------------------------ claims
DeviceErrs == {"create_tun", "tun_name", "private_key", "public_key", "ipc_set"}
HostErrs == {"address_format", "address", "route_invalid_ip", "route_invalid_name",
             "route_index_cmd", "route_index_missing", "route_cidr_format", "route"}

\* commands of the given kinds among those issued
CmdsOf(kinds) == {i \in 1..Len(cmds) : cmds[i].cmd \in kinds}
\* address and route commands issued (everything but the teardown command)
HostCmds == {i \in 1..Len(cmds) : cmds[i].cmd \notin TeardownCmds}

\* the device is active
ActiveDevice == devState = "up"

\* the address is assigned and every allowed range is routed
HostConfigured ==
    /\ addrAssigned
    /\ \A i \in 1..Len(config.AllowedIPs) :
        \E j \in 1..Len(routes) : routes[j] = config.AllowedIPs[i]

\* something of the host configuration is in place
HostTouched == linkUp \/ addrAssigned \/ routes # <<>>

\* C1: when address assignment or a route fails after the device was
\* activated, Setup has closed the device exactly once by the time it returns
\* the error.
C1_ClosedOnHostFailure ==
    (fgpc = "setup_err" /\ setupErr \in HostErrs /\ devState # "down")
        => (closeCalls = 1 /\ devState = "closed")

\* C2: whenever Setup has returned and whenever the process has exited (by
\* os.Exit), the tunnel handle is fully set up or fully absent: there is no
\* active device with the address or a route missing, and no address or route
\* in place without an active device.
C2_AllOrNothing ==
    (SetupReturned \/ exitCode \in {"0", "1"}) =>
        /\ ActiveDevice => HostConfigured
        /\ HostTouched => ActiveDevice

\* C3: a failure of the device controller (creation, name lookup, key
\* conversion, configuration apply) is returned at once and no address or
\* route command is issued in that run.
C3_NoHostCommandAfterDeviceFailure ==
    setupErr \in DeviceErrs =>
        /\ HostCmds = {}
        /\ fgpc \in {"setup_err", "ret_err", "exited"}
        /\ ~m_device

\* C3 witness: device creation failed and the process has exited on it.
C3_Witness ==
    /\ setupErr = "create_tun"
    /\ exitCode = "1"
    /\ cmds = <<>>

\* C4: after a termination signal in steady state the goroutine runs Cleanup
\* and only then exits with code 0: at exit Cleanup has run exactly once and
\* closed the device, and no tick is handled from the moment the signal is
\* taken.
C4_CleanupThenExit ==
    /\ [](exitCode = "0" =>
            /\ cleanupCalls = 1
            /\ closeCalls = 1
            /\ devState = "closed"
            /\ cmds[Len(cmds)].cmd \in TeardownCmds)
    /\ [][(exitCode # "0" /\ exitCode' = "0") => (bgpc = "os_exit" /\ cleanupCalls = 1)]_vars
    /\ [][(bgpc \in {"cleanup", "os_exit", "exited"}) => (ticks' = ticks)]_vars

\* C4 witness: the process exited with code 0 while a tick was waiting unhandled.
C4_Witness ==
    /\ exitCode = "0"
    /\ cleanupCalls = 1
    /\ tickC

\* C5: once the foreground blocks in steady state it never moves again, and the
\* process ends only by the exit of the goroutine's signal branch; the
\* goroutine leaves its select loop only by taking a signal.
C5_OnlySignalLeavesSteadyState ==
    /\ [][(fgpc = "blocked") => (fgpc' = "blocked")]_vars
    /\ [][(fgpc = "blocked" /\ exitCode' # exitCode)
            => (bgpc = "os_exit" /\ exitCode' = "0")]_vars
    /\ [][(bgpc = "select" /\ bgpc' # "select") => (sigChan > 0)]_vars

\* C5 witness: a tick whose query failed was handled, the process went on and
\* later exited through the signal branch.
C5_Witness ==
    /\ exitCode = "0"
    /\ fgpc = "blocked"
    /\ tick.handled
    /\ tick.failed

\* C6 as claimed: on a tick in interactive mode the display is redrawn exactly
\* when the device's counters differ from the last observed sample.
C6_RedrawIffChanged ==
    (tick.handled /\ ~serviceMode) =>
        (tick.rendered <=> tick.query # tick.prevLast)

\* C6 amended: on a tick in interactive mode with at least one mapping rule the
\* counters are sampled and the display is redrawn (showing the sample) exactly
\* when the sample differs from the last observed one; without mapping rules
\* nothing is sampled or drawn.
C6_RedrawIffChangedWithRules ==
    (tick.handled /\ ~serviceMode) =>
        IF mappingRules > 0
        THEN /\ tick.sampled
             /\ tick.rendered <=> tick.query # tick.prevLast
             /\ tick.rendered => (shown = tick.query /\ renders > 0)
             /\ ~tick.rendered => <<lastRx, lastTx>> = tick.prevLast
        ELSE ~tick.sampled /\ ~tick.rendered /\ renders = 0 /\ shown = <<>>

\* C6 witness: after a redraw, a tick whose sample equals the last observed one
\* left the display alone.
C6_Witness ==
    /\ tick.handled
    /\ ~serviceMode
    /\ tick.sampled
    /\ ~tick.failed
    /\ ~tick.rendered
    /\ renders > 0

\* C7: in service mode the traffic display is never drawn.
C7_ServiceModeNeverRenders ==
    serviceMode => (renders = 0 /\ shown = <<>> /\ (tick.handled => ~tick.rendered))

\* C7 witness: service mode, rules present, traffic flowed and two ticks were
\* handled.
C7_Witness ==
    /\ serviceMode
    /\ mappingRules > 0
    /\ rxc > 0
    /\ ticks >= 2

\* C8: after a tick whose status query failed the display is not redrawn and
\* the last observed sample is what it was.
C8_FailedQueryIsNoChange ==
    (tick.handled /\ tick.sampled /\ tick.failed) =>
        (~tick.rendered /\ <<lastRx, lastTx>> = tick.prevLast)

\* C9 as claimed: every value GetTrafficStats returns is at least every value
\* it returned before, in both counters.
C9_Monotone ==
    sample.taken => (sample.rx >= peak[1] /\ sample.tx >= peak[2])

\* C9 amended: in the connect command a successful status query returns counts
\* at least as large as every earlier return, and a failed query returns (0, 0).
C9_MonotoneWhenQuerySucceeds ==
    sample.taken =>
        IF sample.failed
        THEN sample.rx = 0 /\ sample.tx = 0
        ELSE sample.rx >= peak[1] /\ sample.tx >= peak[2]

\* C9 witness: a successful query returned more than an earlier non-zero return.
C9_Witness ==
    /\ sample.taken
    /\ ~sample.failed
    /\ peak[1] > 0
    /\ sample.rx > peak[1]

\* C10: a second Cleanup on the same handle is a no-op: the device is not
\* closed again and no further external command is issued.
C10_SecondCleanupIsNoOp ==
    cleanupCalls >= 2 => (closeCalls <= 1 /\ Cardinality(CmdsOf(TeardownCmds)) <= 1)

\* the commands that add a route, and all commands of the route step
RouteAddCmds == {RouteCmd(os) : os \in Platforms} \cup {"route add mask"}
RouteStepCmds == RouteAddCmds \cup {"netsh show interfaces"}

\* positions of malformed entries in the parsed allowed ranges
Malformed == {i \in 1..Len(config.AllowedIPs) : ~isValidIP(config.AllowedIPs[i])}

\* C11: in a run whose allowed-range list holds a malformed entry, at
\* whatever position, the route step issues no external command.
C11_NoRouteCommandWithMalformedEntry ==
    (config.present /\ Malformed # {}) => CmdsOf(RouteStepCmds) = {}

\* C12: with an interface name that does not match the allowed pattern, the
\* address assignment and the route step both return an error without invoking
\* an external command.
C12_InvalidNameFailsClosed ==
    (m_device /\ ~isValidInterfaceName(m_interfaceName)) =>
        /\ HostCmds = {}
        /\ ~linkUp
        /\ ~addrAssigned
        /\ fgpc \notin {"ip_addr", "add_routes", "route_win", "setup_ok", "blocked"}

\* the ranges handed to the route-add commands, in the order of the commands
RouteAddArgs ==
    LET adds == SelectSeq(cmds, LAMBDA c : c.cmd \in RouteAddCmds)
    IN  [i \in 1..Len(adds) |-> adds[i].arg]

SetupSucceeded == fgpc \in {"setup_ok", "blocked"}

\* C13: the configuration block carries exactly one allowed_ip entry, the first
\* allowed range, and a successful Setup has issued exactly one route-add
\* command per allowed range, in list order.
C13_FirstRangeInBlockAllRangesRouted ==
    /\ uapi.set =>
          /\ Len(uapi.allowed_ip) = 1
          /\ uapi.allowed_ip[1] = config.AllowedIPs[1]
    /\ SetupSucceeded =>
          /\ uapi.set
          /\ Len(config.AllowedIPs) >= 1
          /\ RouteAddArgs = config.AllowedIPs

\* C13 witness: Setup succeeded on a configuration with two allowed ranges.
C13_Witness ==
    /\ fgpc = "setup_ok"
    /\ Len(config.AllowedIPs) = 2
    /\ config.AllowedIPs[1] # config.AllowedIPs[2]
    /\ Len(routes) = 2

\* ------------------------------------------------- ParseConfig on every file
InitParse ==
    /\ Fresh
    /\ OthersIdle
    /\ file \in AllFiles
    /\ fgpc = "parse"
    /\ config = NoConfig
    /\ configID = ""
    /\ parseErr = ""

NextParse == RunEParse

SpecParse == InitParse /\ [][NextParse]_vars

\* the required fields in the order the claim gives, and the error of each
RequiredOrder == <<"config_id", "PrivateKey", "Address", "PublicKey", "Endpoint", "AllowedIPs">>
MissingErr ==
    <<"config_id not found", "missing private key", "missing interface address",
      "missing peer public key", "missing peer endpoint", "missing allowed IPs">>

\* the required fields a file lacks, as positions in RequiredOrder
MissingFields(f) ==
    {i \in 1..5 : f[RequiredOrder[i]] = ""} \cup (IF f.AllowedIPs = <<>> THEN {6} ELSE {})

FirstMissing(f) == CHOOSE i \in MissingFields(f) : \A j \in MissingFields(f) : i <= j

Parsed == fgpc # "parse" /\ file.loadable

\* C14: ParseConfig fails on the first missing field in the order config_id,
\* private key, address, peer public key, peer endpoint, allowed ranges: with
\* several fields missing the error is that of the earliest one; with every
\* field present the configuration is accepted, the keepalive being 25 when
\* absent or unparseable.
C14_FirstMissingFieldWins ==
    Parsed =>
        /\ Cardinality(MissingFields(file)) >= 2 =>
              parseErr = MissingErr[FirstMissing(file)]
        /\ (MissingFields(file) # {} /\ FirstMissing(file) <= 5) =>
              (parseErr = MissingErr[FirstMissing(file)] /\ ~config.present)
        /\ MissingFields(file) = {} =>
              /\ parseErr = ""
              /\ config.present
              /\ configID = file.config_id
              /\ config.PrivateKey = file.PrivateKey
              /\ config.Address = file.Address
              /\ config.PublicKey = file.PublicKey
              /\ config.Endpoint = file.Endpoint
              /\ config.PersistentKeepalive =
                    (IF file.PersistentKeepalive = "30" THEN 30 ELSE 25)

\* C14 witness: private key, address and allowed ranges are missing and the
\* error is that of the private key.
C14_Witness ==
    /\ Parsed
    /\ file.config_id # ""
    /\ file.PrivateKey = ""
    /\ file.Address = ""
    /\ file.AllowedIPs = <<>>
    /\ file.PersistentKeepalive = "abc"
    /\ parseErr = "missing private key"

\* C15: when ParseConfig succeeds the parsed allowed ranges have at least one
\* entry and no entry is empty, so a file whose allowed-ranges field is absent
\* or empty is rejected.
C15_ParsedRangesNonEmpty ==
    /\ (Parsed /\ parseErr = "") =>
          /\ Len(config.AllowedIPs) >= 1
          /\ \A i \in 1..Len(config.AllowedIPs) : config.AllowedIPs[i] # <<>>
    /\ (Parsed /\ file.AllowedIPs = <<>>) => parseErr # ""

\* the interface address of the file is present but is no CIDR
AddressNotCIDR == file.loadable /\ file.Address # "" /\ file.Address \notin ValidCIDRs

\* C16: an interface address that is present but is not a valid CIDR is
\* rejected by ParseConfig, and no tunnel device is created for it.
C16_BadAddressIsParseError ==
    AddressNotCIDR =>
        /\ fgpc # "parse" => parseErr # ""
        /\ devState = "none"
        /\ ~m_device

\* the device failed to come up and Setup went on
ActivationFailed == m_device /\ devState = "down"

\* C17: the steps run in the order parse, fetch rules, activate the device,
\* assign the address, install routes, enter steady state, each only after the
\* one before succeeded: a parse or fetch error leaves no device and no
\* command, the device is created only after both succeeded, address and
\* route commands are issued only on an active device, routes only after the
\* address, and steady state only after every range was routed.
C17_StrictStepOrder ==
    /\ (parseErr # "" \/ listErr) => (devState = "none" /\ cmds = <<>> /\ ~m_device)
    /\ devState # "none" =>
          (config.present /\ parseErr = "" /\ ~listErr /\ fgpc \notin {"parse", "list"})
    /\ (HostCmds # {} /\ cleanupCalls = 0) => ActiveDevice
    /\ (CmdsOf(RouteStepCmds) # {} /\ cleanupCalls = 0) => addrAssigned
    /\ (SetupSucceeded /\ cleanupCalls = 0) => (HostConfigured /\ setupErr = "")

\* the background goroutine of RunE exists
BgStarted == bgpc # "none"

SetupFailed == parseErr # "" \/ listErr \/ setupErr # "" \/ ActivationFailed

\* C19: exit code 0 only after the signal branch cleaned up; after any failed
\* step (parse, rule fetch, device creation, keys, activation, address,
\* routes) steady state is not entered and the process does not exit with 0,
\* and the error return of RunE exits with 1.
C19_ExitCodes ==
    /\ exitCode = "0" => (cleanupCalls = 1 /\ bgpc \in {"os_exit", "exited"})
    /\ SetupFailed => (~SetupSucceeded /\ ~BgStarted /\ exitCode # "0")
    /\ (fgpc = "exited") => (exitCode \in {"1", "killed"} /\ SetupFailed)

\* C20: when bringing the device up fails, Setup returns an error without
\* calling configureIPAddress or addRoutes, and the device is closed again.
C20_ActivationFailureIsFatal ==
    ActivationFailed =>
        /\ HostCmds = {}
        /\ fgpc \notin {"ip_addr", "add_routes", "route_win", "setup_ok", "blocked"}
        /\ fgpc \in {"setup_err", "ret_err", "exited"} => setupErr # ""

\* Setup returned the error of a step of setupWireguardDevice
DeviceSetupFailed == fgpc \in {"setup_err", "ret_err", "exited"} /\ setupErr \in DeviceErrs

\* C21: the device is brought up only after the peer configuration was
\* applied, and when a step before activation fails (interface name, key
\* encoding, configuration apply) the device created so far is closed by the
\* time the error is returned.
C21_PreActiveFailureUnwinds ==
    /\ devState = "up" => uapi.set
    /\ DeviceSetupFailed => (devState \in {"none", "closed"} /\ ~m_device)

\* GetDomainWithRegion(region)
GetDomainWithRegion(region) ==
    IF region # "" /\ region # "default" THEN <<region, ".portmap.io">>
    ELSE <<"portmap.io">>

\* the rule list was fetched and has a first rule
RulesFetched == fgpc \notin {"parse", "list"} /\ parseErr = "" /\ ~listErr /\ Len(mappings) >= 1

\* the region attribute of a rule, empty when the rule carries none
RegionOf(rule) == IF rule = "absent" THEN "" ELSE rule

\* C23: the gateway label is derived from the first rule's region: an absent,
\* empty or "default" region gives "portmap.io", any other region r gives
\* "r.portmap.io", for every rule list with a first rule.
C23_GatewayLabelFromFirstRule ==
    RulesFetched => serverHostname = GetDomainWithRegion(RegionOf(mappings[1]))

\* the commands of configureIPAddress
AddressCmds == {AddressCmd(os) : os \in Platforms} \cup {"ip addr add"}

\* a step of the connect operation has failed
StepFailed == parseErr # "" \/ listErr \/ setupErr # ""

connectVars == <<goos, serviceMode, file, fgpc, bgpc, exitCode, parseVars, listVars,
                 deviceVars, mgrVars, hostVars, cmds, routeIdx, setupErr,
                 cleanupCalls, signalVars, tickerVars, counterVars, displayVars,
                 sampleVars, calls>>

Digits == <<"0", "1", "2", "3", "4", "5", "6", "7", "8", "9">>
IsDigit(c) == \E d \in 1..10 : Digits[d] = c
DigitVal(c) == (CHOOSE d \in 1..10 : Digits[d] = c) - 1

\* the length of the longest prefix of s made of digits
RECURSIVE LeadingDigits(_)
LeadingDigits(s) ==
    IF s = <<>> \/ ~IsDigit(Head(s)) THEN 0 ELSE 1 + LeadingDigits(Tail(s))

\* the value of a sequence of digits
RECURSIVE DecimalValue(_)
DecimalValue(s) ==
    IF s = <<>> THEN 0
    ELSE 10 * DecimalValue(SubSeq(s, 1, Len(s) - 1)) + DigitVal(s[Len(s)])

\* fmt.Sscanf(port, "%d", &portNum): an optional sign and the digits that
\* follow, whatever comes after them; an error when there is no digit
Sscanf(text) ==
    LET signed == text # <<>> /\ Head(text) \in {"-", "+"}
        body == IF signed THEN Tail(text) ELSE text
        n == LeadingDigits(body)
        v == DecimalValue(SubSeq(body, 1, n))
    IN  IF n = 0 THEN [ok |-> FALSE, num |-> 0]
        ELSE [ok |-> TRUE, num |-> IF signed /\ Head(text) = "-" THEN 0 - v ELSE v]

\* the reserved ports without the MySQL one
reservedPortsOpenVPNOnly == 1194 :> "OpenVPN default port"

reservedPorts == 1194 :> "OpenVPN default port" @@ 3306 :> "MySQL default port"

\* %d of a reserved port
PortDecimal(p) == IF p = 1194 THEN "1194" ELSE "3306"

PortRet(valid, msg) == [set |-> TRUE, valid |-> valid, msg |-> msg]

VpnTypes == {"OpenVPN", "WireGuard"}

IsValidPort(portText, proto, ctype) ==
    LET scan == Sscanf(portText)
        portNum == scan.num
    IN  IF ~scan.ok THEN PortRet(FALSE, <<"Port must be a number">>)
        ELSE IF portNum \in DOMAIN reservedPorts
        THEN PortRet(FALSE, <<"Port ", PortDecimal(portNum), " is not allowed (",
                              reservedPorts[portNum], ")">>)
        ELSE IF portNum = 80
        THEN IF proto # "http"
             THEN PortRet(FALSE, <<"Port 80 is only allowed for http protocol">>)
             ELSE IF ctype \notin VpnTypes
             THEN PortRet(FALSE, <<"Port 80 is only allowed for OpenVPN and WireGuard configurations">>)
             ELSE PortRet(TRUE, <<>>)
        ELSE IF portNum = 443
        THEN IF proto # "https"
             THEN PortRet(FALSE, <<"Port 443 is only allowed for https protocol">>)
             ELSE IF ctype \notin VpnTypes
             THEN PortRet(FALSE, <<"Port 443 is only allowed for OpenVPN and WireGuard configurations">>)
             ELSE PortRet(TRUE, <<>>)
        ELSE IF portNum < 1024 \/ portNum > 65535
        THEN PortRet(FALSE, <<"Port must be in range [1024-65535], except for special cases (80/443)">>)
        ELSE PortRet(TRUE, <<>>)

\* port arguments: around every boundary of the rules, and texts that are no
\* plain number
PortTexts ==
    {<<"0">>, <<"1">>, <<"7", "9">>, <<"8", "0">>, <<"8", "1">>, <<"4", "4", "2">>,
     <<"4", "4", "3">>, <<"4", "4", "4">>, <<"1", "0", "2", "3">>, <<"1", "0", "2", "4">>,
     <<"1", "1", "9", "3">>, <<"1", "1", "9", "4">>, <<"1", "1", "9", "5">>,
     <<"3", "3", "0", "6">>, <<"8", "0", "8", "0">>, <<"6", "5", "5", "3", "5">>,
     <<"6", "5", "5", "3", "6">>, <<"-", "1">>, <<"+", "8", "0">>, <<"8", "0", "x">>,
     <<"x">>, <<>>}
Protocols == {"http", "https", "tcp"}
ConfigTypes == {"OpenVPN", "WireGuard", "Other"}

InitPort ==
    /\ Fresh
    /\ file = GoodFile
    /\ fgpc = "idle"
    /\ config = NoConfig
    /\ configID = ""
    /\ parseErr = ""
    /\ port \in PortTexts
    /\ protocol \in Protocols
    /\ configType \in ConfigTypes
    /\ portRet = NoValue
    /\ retries = 0
    /\ delay = 0
    /\ fetchpc = "idle"
    /\ loopI = 0
    /\ attempts = <<>>
    /\ sleeps = <<>>
    /\ lastErr = ""
    /\ fetchRet = NoValue

\* a command calls IsValidPort(port, protocol, configType)
CallIsValidPort ==
    /\ ~portRet.set
    /\ protocol # ""
    /\ portRet' = IsValidPort(port, protocol, configType)
    /\ UNCHANGED <<connectVars, port, protocol, configType, fetchVars>>

NextPort == CallIsValidPort

SpecPort == InitPort /\ [][NextPort]_vars

\* the port number of the call
PortNum == Sscanf(port).num

\* the rules of the claim in their order, as the message of the first one
\* the number p violates, <<>> when it violates none
FirstViolation(p, proto, ctype) ==
    CASE p = 1194 -> <<"Port ", "1194", " is not allowed (", "OpenVPN default port", ")">>
      [] p = 3306 -> <<"Port ", "3306", " is not allowed (", "MySQL default port", ")">>
      [] p = 80 /\ proto # "http" -> <<"Port 80 is only allowed for http protocol">>
      [] p = 80 /\ proto = "http" /\ ctype \notin {"OpenVPN", "WireGuard"} ->
            <<"Port 80 is only allowed for OpenVPN and WireGuard configurations">>
      [] p = 443 /\ proto # "https" -> <<"Port 443 is only allowed for https protocol">>
      [] p = 443 /\ proto = "https" /\ ctype \notin {"OpenVPN", "WireGuard"} ->
            <<"Port 443 is only allowed for OpenVPN and WireGuard configurations">>
      [] p \notin {80, 443} /\ (p < 1024 \/ p > 65535) ->
            <<"Port must be in range [1024-65535], except for special cases (80/443)">>
      [] OTHER -> <<>>

\* C24: IsValidPort accepts the port number p exactly when p is not reserved
\* (1194, 3306) and p = 80 with http and an OpenVPN or WireGuard
\* configuration, or p = 443 with https and such a configuration, or
\* 1024 <= p <= 65535; a rejection carries the message of the first rule
\* violated.
C24_PortAcceptedExactlyWhenAllowed ==
    (portRet.set /\ Sscanf(port).ok) =>
        /\ portRet.valid <=>
              /\ PortNum \notin {1194, 3306}
              /\ \/ PortNum = 80 /\ protocol = "http" /\ configType \in {"OpenVPN", "WireGuard"}
                 \/ PortNum = 443 /\ protocol = "https" /\ configType \in {"OpenVPN", "WireGuard"}
                 \/ (1024 <= PortNum /\ PortNum <= 65535)
        /\ portRet.msg = FirstViolation(PortNum, protocol, configType)

\* C24 witness: the reserved port 3306 was rejected with its own message.
C24_Witness ==
    /\ portRet.set
    /\ PortNum = 3306
    /\ ~portRet.valid
    /\ portRet.msg[4] = "MySQL default port"

\* ------------------------------------------------- fetchConfigWithRetry
\* what client.GetConfig gives: an error, or a response without a data
\* object, or one whose data has no config_file, an empty one, a null one
\* (a value that is no string), or a file
GetConfigAnswers == {"error", "no_data", "no_file", "empty_file", "null_file", "file"}

\* configFile, exists := data["config_file"]; exists && configFile != "",
\* configFile being an interface value: only the string "" equals ""
ConfigFileReady(answer) == answer \in {"null_file", "file"}

\* the time.Duration values of delay, in seconds
Delays == {1, 3}

InitFetch ==
    /\ Fresh
    /\ file = GoodFile
    /\ fgpc = "idle"
    /\ config = NoConfig
    /\ configID = ""
    /\ parseErr = ""
    /\ port = <<>>
    /\ protocol = ""
    /\ configType = ""
    /\ portRet = NoValue
    /\ retries \in 0..MaxRetries
    /\ delay \in Delays
    /\ fetchpc = "loop"
    /\ loopI = 0
    /\ attempts = <<>>
    /\ sleeps = <<>>
    /\ lastErr = ""
    /\ fetchRet = NoValue

fetchFrame == <<connectVars, portVars, retries, delay>>

\* the head of the loop: i <= retries, with time.Sleep(delay) when i > 0;
\* after the loop the error that wraps lastErr
FetchLoop ==
    /\ fetchpc = "loop"
    /\ IF loopI <= retries
       THEN /\ sleeps' = IF loopI > 0 THEN Append(sleeps, delay) ELSE sleeps
            /\ fetchpc' = "get"
            /\ UNCHANGED fetchRet
       ELSE /\ fetchRet' = [set |-> TRUE, ok |-> FALSE, response |-> 0,
                            err |-> <<"failed to fetch config after %d retries", retries, lastErr>>]
            /\ fetchpc' = "done"
            /\ UNCHANGED sleeps
    /\ UNCHANGED <<loopI, attempts, lastErr, fetchFrame>>

\* client.GetConfig(configID) and the checks of its answer
FetchGetConfig ==
    /\ fetchpc = "get"
    /\ \E answer \in GetConfigAnswers :
        /\ attempts' = Append(attempts, answer)
        /\ IF answer = "error"
           THEN /\ lastErr' = "api error"
                /\ loopI' = loopI + 1
                /\ fetchpc' = "loop"
                /\ UNCHANGED fetchRet
           ELSE IF ConfigFileReady(answer)
           THEN /\ fetchRet' = [set |-> TRUE, ok |-> TRUE, response |-> Len(attempts) + 1,
                                err |-> <<>>]
                /\ fetchpc' = "done"
                /\ UNCHANGED <<loopI, lastErr>>
           ELSE /\ lastErr' = "config file not ready yet"
                /\ loopI' = loopI + 1
                /\ fetchpc' = "loop"
                /\ UNCHANGED fetchRet
    /\ UNCHANGED <<sleeps, fetchFrame>>

NextFetch == FetchLoop \/ FetchGetConfig

\* the function runs to its end once called
SpecFetch == InitFetch /\ [][NextFetch]_vars /\ WF_vars(NextFetch)

\* the data of the answer carries a non-empty config_file
HasConfigFile(answer) == answer = "file"

\* the failure an answer without a file counts as
FailureOf(answer) == IF answer = "error" THEN "api error" ELSE "config file not ready yet"

\* C25: fetchConfigWithRetry calls GetConfig at most retries+1 times, sleeps
\* delay before every attempt but the first, returns the first response whose
\* data carries a non-empty config_file without a further call, and otherwise
\* ends with an error that wraps the last failure.
C25_FetchWithRetry ==
    /\ [](Len(attempts) <= retries + 1)
    /\ [](\A k \in 1..Len(sleeps) : sleeps[k] = delay)
    /\ [](Len(sleeps) = IF fetchpc = "get" THEN Len(attempts)
                        ELSE IF attempts = <<>> THEN 0 ELSE Len(attempts) - 1)
    /\ [](\A k \in 1..Len(attempts) : HasConfigFile(attempts[k]) =>
            (k = Len(attempts) /\ fetchRet.set /\ fetchRet.ok /\ fetchRet.response = k))
    /\ []((fetchRet.set /\ fetchRet.ok) => HasConfigFile(attempts[Len(attempts)]))
    /\ []((fetchRet.set /\ ~fetchRet.ok) =>
            /\ Len(attempts) = retries + 1
            /\ fetchRet.err[3] = FailureOf(attempts[Len(attempts)]))
    /\ <>(fetchpc = "done")

\* the process ended on a termination signal: killed by it, or os.Exit(0)
EndedBySignal == exitCode \in {"killed", "0"}

\* C26: when a termination signal ends the process after the device became
\* active, Manager.Cleanup has run before the exit, also when the signal came
\* during address and route setup or before signal.Notify was registered.
C26_SignalAfterActiveRunsCleanup ==
    (EndedBySignal /\ devState \in {"up", "closed"}) => cleanupCalls >= 1

\* ------------------------------------------- steady state with a ticker
\* that never stops
\* the ticker fires again after the counted ticks
TickerRefires ==
    /\ Running
    /\ tickerOn
    /\ ~tickC
    /\ ticks >= MaxTicks
    /\ tickC' = TRUE
    /\ UNCHANGED <<exitCode, tickerOn, signalVars, counterVars, envFrame>>

\* the connect command on a well-formed file, which is what reaches steady
\* state on every platform
InitLive == Init /\ file = GoodFile

NextLive == Next \/ TickerRefires

\* the goroutine is scheduled: a case of its select that stays ready is taken,
\* and the signal branch runs on to os.Exit
SpecLive ==
    /\ InitLive
    /\ [][NextLive]_vars
    /\ WF_vars(BgSignal)
    /\ WF_vars(BgCleanup)
    /\ WF_vars(BgExit)

\* C27: in steady state a delivered signal stays in sigChan until the signal
\* branch takes it, and it is eventually taken and the process exits, however
\* often a tick is ready.
C27_SignalEventuallyHandled ==
    /\ [][(sigChan > 0 /\ sigChan' = 0) => (bgpc = "select" /\ bgpc' = "cleanup")]_vars
    /\ (sigChan > 0) ~> (exitCode = "0")

\* C27 witness: a signal and a tick are both ready after the counted ticks
\* were handled.
C27_Witness ==
    /\ bgpc = "select"
    /\ sigChan > 0
    /\ tickC
    /\ ticks >= MaxTicks

\* C28: the last observed sample starts at (0, 0) and is written only by the
\* background task, only in a step that redraws the display, so it always
\* equals the values the display shows (and stays (0, 0) when there is no
\* display).
C28_LastSampleIsShown ==
    /\ [](IF shown # <<>> THEN shown = <<lastRx, lastTx>> ELSE (lastRx = 0 /\ lastTx = 0))
    /\ [](bgpc = "none" => (lastRx = 0 /\ lastTx = 0))
    /\ [][(<<lastRx, lastTx>>' # <<lastRx, lastTx>>) =>
            /\ bgpc = "select"
            /\ tickC /\ ~tickC'
            /\ tick'.rendered
            /\ shown' = <<lastRx', lastTx'>>]_vars

\* C28 witness: a redraw showed two different counters, which are the last
\* observed sample.
C28_Witness ==
    /\ tick.handled
    /\ tick.rendered
    /\ lastRx # lastTx
    /\ shown = <<lastRx, lastTx>>

\* the range addRoutes is at
CurrentRange == config.AllowedIPs[routeIdx]

\* C29: each allowed range that passed isValidIP (a CIDR or a bare IP) gets
\* exactly one route-add command on every platform: after Setup succeeded the
\* route-add commands are the allowed ranges one for one, and addRoutes never
\* gives up on a range that passed the validation because of the range's
\* format, with the interface lookup already run.
C29_ValidatedRangeIsRouted ==
    /\ SetupSucceeded => RouteAddArgs = config.AllowedIPs
    /\ setupErr = "route_cidr_format" =>
          (~isValidIP(CurrentRange) /\ CmdsOf({"netsh show interfaces"}) = {})

====
